---- MODULE Spec2Model ----
(***************************************************************************)
(* News alert detection and sentiment classification of the FinEdu news    *)
(* view: AlertDetector (keyword tiers, ranking), FinnhubService            *)
(* (conversion of Finnhub records, sentiment score and label, the proxies  *)
(* and the fallback list of getMarketNews) and the NewsIntelligence        *)
(* component (fetchNews, its timer, the effect that detects alerts).       *)
(*                                                                         *)
(* Specifications: Spec (one detectAlerts call), SpecConverter (one        *)
(* conversion), SpecVocabulary (items built from the reporting terms),     *)
(* SpecRepeat (two detectAlerts calls on one list), SpecImpact (one call   *)
(* of getImpactColor and of getImpactIcon), SpecView (the component with   *)
(* its fetchNews calls in flight and its dismissals), SpecViewFair (the    *)
(* same, every proxy request ending), SpecViewRecorded (the same, with the *)
(* history of the dismissed alerts).                                       *)
(*                                                                         *)
(* JavaScript values are modelled as follows.                              *)
(*   - strings are TLA+ strings; String.prototype.includes and             *)
(*     toLowerCase are computed character by character;                    *)
(*   - an object is a record; a property that is missing (undefined) is    *)
(*     missing from the record's DOMAIN;                                   *)
(*   - a value that may be undefined and is handed on as a value (not read *)
(*     from an object) is a sequence: << >> for undefined, <<v>> for v;    *)
(*   - a Date is its time value, an integer number of clock ticks;         *)
(*   - a number that results from floating-point arithmetic is an IEEE-754 *)
(*     double, held exactly as sign and magnitude in units of 2^-56.       *)
(***************************************************************************)
EXTENDS Integers, Sequences, FiniteSets, TLC

VARIABLES
  newsItems,     \* AlertDetector.detectAlerts: the argument of the call
  alerts,        \* AlertDetector.detectAlerts: the list it returned
  now,           \* the wall clock read by Date.now() / new Date()
  pc,            \* "ready" before the call, "returned" after it
  finnhubNews,   \* convertFinnhubNewsToAppFormat: the argument of the call
  formattedNews, \* convertFinnhubNewsToAppFormat: the list it returned
  cpc,           \* "ready" before the conversion, "returned" or "threw" after
  firstAlerts,   \* the list the first of two detectAlerts calls returned
  impactCall,    \* getImpactColor / getImpactIcon: the argument and the results
  news,          \* NewsIntelligence: the state news
  loading,       \* NewsIntelligence: the state loading
  newsCategory,  \* NewsIntelligence: the state newsCategory
  viewAlerts,    \* NewsIntelligence: the state alerts, the alerts displayed
  fetches,       \* the fetchNews calls in flight, in the order they started
  started,       \* the number of fetchNews calls started so far
  fetchedFor,    \* newsCategory as the fetchNews call that set news read it
  dismissed      \* history: the alerts dismissAlert has removed so far

vars ==
  <<newsItems, alerts, now, pc, finnhubNews, formattedNews, cpc, firstAlerts,
    impactCall, news, loading, newsCategory, viewAlerts, fetches, started,
    fetchedFor, dismissed>>

viewVars ==
  <<news, loading, newsCategory, viewAlerts, fetches, started, fetchedFor,
    dismissed>>

detectorVars == <<newsItems, alerts, now, pc>>
converterVars == <<finnhubNews, formattedNews, cpc>>

\* NewsIntelligence as its useState calls leave it, before any effect ran
InitialRender ==
  /\ news = <<>>
  /\ loading = TRUE
  /\ newsCategory = "general"
  /\ viewAlerts = <<>>
  /\ fetches = <<>>
  /\ started = 0
  /\ fetchedFor = <<>>
  /\ dismissed = {}

(***************************************************************************)
(* Bounds of the model.                                                    *)
(***************************************************************************)
MaxBatch == 2      \* longest list handed to detectAlerts
MaxRecords == 2    \* longest list handed to convertFinnhubNewsToAppFormat
MaxFetches == 2    \* most fetchNews calls started in the News view

(***************************************************************************)
(* Strings.                                                                *)
(***************************************************************************)
UpperToLower ==
  [c \in {"A", "B", "C", "D", "E", "F", "G", "H", "I", "J", "K", "L", "M",
          "N", "O", "P", "Q", "R", "S", "T", "U", "V", "W", "X", "Y", "Z"} |->
     CASE c = "A" -> "a" [] c = "B" -> "b" [] c = "C" -> "c" [] c = "D" -> "d"
       [] c = "E" -> "e" [] c = "F" -> "f" [] c = "G" -> "g" [] c = "H" -> "h"
       [] c = "I" -> "i" [] c = "J" -> "j" [] c = "K" -> "k" [] c = "L" -> "l"
       [] c = "M" -> "m" [] c = "N" -> "n" [] c = "O" -> "o" [] c = "P" -> "p"
       [] c = "Q" -> "q" [] c = "R" -> "r" [] c = "S" -> "s" [] c = "T" -> "t"
       [] c = "U" -> "u" [] c = "V" -> "v" [] c = "W" -> "w" [] c = "X" -> "x"
       [] c = "Y" -> "y" [] c = "Z" -> "z"]

\* String.prototype.toLowerCase: every upper-case letter is replaced by its
\* lower-case letter (a string without one is returned as it is).  upper is
\* the set of the positions of the upper-case letters of s; lowerFrom gives
\* the lower-cased rest of s from position i on.
RECURSIVE lowerFrom(_, _, _)
lowerFrom(s, i, upper) ==
  LET ahead == {j \in upper : j >= i}
  IN  IF ahead = {} THEN SubSeq(s, i, Len(s))
      ELSE LET p == CHOOSE j \in ahead : \A h \in ahead : j <= h
           IN  SubSeq(s, i, p - 1) \o UpperToLower[SubSeq(s, p, p)]
                 \o lowerFrom(s, p + 1, upper)

toLowerCase(s) ==
  LET upper == {i \in 1..Len(s) : SubSeq(s, i, i) \in DOMAIN UpperToLower}
  IN  IF upper = {} THEN s ELSE lowerFrom(s, 1, upper)

\* the substrings of text that have length n
substrings(text, n) == {SubSeq(text, i, i + n - 1) : i \in 1..(Len(text) - n + 1)}

\* String.prototype.includes: search occurs as a substring of text
includes(text, search) == search \in substrings(text, Len(search))

\* a property read: the value, or undefined when the property is missing
Has(item, field) == field \in DOMAIN item

\* item[field] || dflt : undefined and '' are falsy
OrElse(item, field, dflt) ==
  IF Has(item, field) /\ item[field] # "" THEN item[field] ELSE dflt

(***************************************************************************)
(* AlertDetector: keyword tables.                                          *)
(***************************************************************************)
HIGH_IMPACT_KEYWORDS ==
  <<
    "inflation", "interest rate", "interest rates", "federal reserve", "fed",
    "recession", "economic downturn", "market crash", "financial crisis",
    "bankruptcy", "regulation", "regulatory", "sec investigation",
    "antitrust", "monopoly", "ai breakthrough",
    "artificial intelligence breakthrough", "quantum computing",
    "technological breakthrough", "earnings beat", "earnings miss",
    "quarterly earnings", "merger", "acquisition", "takeover", "ipo",
    "initial public offering", "stock split", "dividend cut",
    "dividend increase", "ceo resignation", "leadership change",
    "cyber attack", "data breach", "supply chain", "inflation data", "cpi",
    "consumer price index", "gdp", "gross domestic product", "unemployment",
    "jobless claims", "market volatility", "volatility index", "vix"
  >>

MEDIUM_IMPACT_KEYWORDS ==
  <<
    "earnings", "profit", "revenue", "sales", "growth", "expansion",
    "downgrade", "upgrade", "rating", "outlook", "forecast", "guidance",
    "partnership", "collaboration", "investment", "funding", "valuation",
    "market share", "competition", "innovation", "research", "development",
    "patent", "launch", "release", "product", "service", "customer",
    "client", "contract", "deal", "agreement"
  >>

\* LOW_IMPACT_KEYWORDS with 'forecast' added to it
LOW_IMPACT_KEYWORDS_WithForecast ==
  <<
    "announcement", "update", "report", "analysis", "commentary", "opinion",
    "prediction", "estimate", "expectation", "forecast", "trend", "pattern",
    "strategy", "plan", "initiative", "program", "project", "campaign",
    "event", "conference", "meeting", "presentation", "interview",
    "statement", "response", "reaction", "impact", "effect", "influence",
    "change", "shift", "movement", "fluctuation"
  >>

LOW_IMPACT_KEYWORDS ==
  <<
    "announcement", "update", "report", "analysis", "commentary", "opinion",
    "prediction", "estimate", "expectation", "trend", "pattern", "strategy",
    "plan", "initiative", "program", "project", "campaign", "event",
    "conference", "meeting", "presentation", "interview", "statement",
    "response", "reaction", "impact", "effect", "influence", "change",
    "shift", "movement", "fluctuation"
  >>

(***************************************************************************)
(* AlertDetector: classification of one item.                              *)
(***************************************************************************)
\* the value analyzeNewsItem returns for an item that yields no alert
null == [null |-> TRUE]

\* findKeywords with matches.unshift(keyword) in place of matches.push(keyword)
RECURSIVE unshiftMatches(_, _, _)
unshiftMatches(text, keywords, i) ==
  IF i > Len(keywords) THEN <<>>
  ELSE unshiftMatches(text, keywords, i + 1)
         \o (IF includes(text, toLowerCase(keywords[i])) THEN <<keywords[i]>>
             ELSE <<>>)

findKeywordsUnshift(text, keywords) == unshiftMatches(text, keywords, 1)

\* findKeywords: the keywords of the table found in the text, in table order
findKeywords(text, keywords) ==
  SelectSeq(keywords, LAMBDA keyword : includes(text, toLowerCase(keyword)))

\* createAlert with the id `alert-${t}`, without the index
createAlertIdOfTime(item, impact, keywords, index, t) ==
  [id         |-> <<"alert", t>>,
   title      |-> OrElse(item, "title", OrElse(item, "headline", "Market Alert")),
   summary    |-> OrElse(item, "summary", "High-impact market news detected"),
   impact     |-> impact,
   category   |-> OrElse(item, "category", "general"),
   detectedAt |-> t,
   keywords   |-> keywords,
   source     |-> OrElse(item, "source", "Unknown")]

\* createAlert with the title item.title || 'Market Alert', without the
\* headline
createAlertTitleOnly(item, impact, keywords, index, t) ==
  [id         |-> <<"alert", t, index>>,
   title      |-> OrElse(item, "title", "Market Alert"),
   summary    |-> OrElse(item, "summary", "High-impact market news detected"),
   impact     |-> impact,
   category   |-> OrElse(item, "category", "general"),
   detectedAt |-> t,
   keywords   |-> keywords,
   source     |-> OrElse(item, "source", "Unknown")]

\* createAlert; t is the clock at the call.  The id `alert-${t}-${index}` is
\* held as its three parts: the format is injective on them.
createAlert(item, impact, keywords, index, t) ==
  [id         |-> <<"alert", t, index>>,
   title      |-> OrElse(item, "title", OrElse(item, "headline", "Market Alert")),
   summary    |-> OrElse(item, "summary", "High-impact market news detected"),
   impact     |-> impact,
   category   |-> OrElse(item, "category", "general"),
   detectedAt |-> t,
   keywords   |-> keywords,
   source     |-> OrElse(item, "source", "Unknown")]

\* textToAnalyze that is empty for an item lacking any of the three fields
textToAnalyzeAllOrNothing(item) ==
  IF {"title", "summary", "headline"} \subseteq DOMAIN item
    THEN toLowerCase(item.title \o " " \o item.summary \o " " \o item.headline)
  ELSE ""

\* the text analyzeNewsItem classifies
textToAnalyze(item) ==
  toLowerCase(OrElse(item, "title", "") \o " " \o OrElse(item, "summary", "")
                \o " " \o OrElse(item, "headline", ""))

\* analyzeNewsItem with the tiers tried in the given order and with the given
\* least numbers of medium and low matches (the code: high, medium, low; 2; 3)
analyzeTiers(item, index, t, order, mediumNeeded, lowNeeded) ==
  LET text == textToAnalyze(item)
      matches == [high   |-> findKeywords(text, HIGH_IMPACT_KEYWORDS),
                  medium |-> findKeywords(text, MEDIUM_IMPACT_KEYWORDS),
                  low    |-> findKeywords(text, LOW_IMPACT_KEYWORDS)]
      needed == [high |-> 1, medium |-> mediumNeeded, low |-> lowNeeded]
      met == {k \in 1..Len(order) : Len(matches[order[k]]) >= needed[order[k]]}
  IN  IF met = {} THEN null
      ELSE LET first == CHOOSE k \in met : \A j \in met : k <= j
           IN  createAlert(item, order[first], matches[order[first]], index, t)

\* the medium tier is tried before the high tier
analyzeNewsItemMediumFirst(item, index, t) ==
  analyzeTiers(item, index, t, <<"medium", "high", "low">>, 2, 3)

\* one medium keyword is enough
analyzeNewsItemOneMedium(item, index, t) ==
  analyzeTiers(item, index, t, <<"high", "medium", "low">>, 1, 3)

\* the low tier is tried before the medium tier
analyzeNewsItemLowFirst(item, index, t) ==
  analyzeTiers(item, index, t, <<"high", "low", "medium">>, 2, 3)

\* four low keywords are needed
analyzeNewsItemFourLow(item, index, t) ==
  analyzeTiers(item, index, t, <<"high", "medium", "low">>, 2, 4)

analyzeNewsItem(item, index, t) ==
  LET text == textToAnalyze(item)
      highImpactMatches == findKeywords(text, HIGH_IMPACT_KEYWORDS)
      mediumImpactMatches == findKeywords(text, MEDIUM_IMPACT_KEYWORDS)
      lowImpactMatches == findKeywords(text, LOW_IMPACT_KEYWORDS)
  IN  IF Len(highImpactMatches) > 0
        THEN createAlert(item, "high", highImpactMatches, index, t)
      ELSE IF Len(mediumImpactMatches) > 1
        THEN createAlert(item, "medium", mediumImpactMatches, index, t)
      ELSE IF Len(lowImpactMatches) > 2
        THEN createAlert(item, "low", lowImpactMatches, index, t)
      ELSE null

(***************************************************************************)
(* AlertDetector.detectAlerts: the forEach pass, then the sort.            *)
(***************************************************************************)
impactOrder == [high |-> 3, medium |-> 2, low |-> 1]

\* compareAlerts without the comparison of the detection times
compareAlertsImpactOnly(a, b) == impactOrder[b.impact] - impactOrder[a.impact]

\* the comparison function handed to Array.prototype.sort
compareAlerts(a, b) ==
  LET impactDiff == impactOrder[b.impact] - impactOrder[a.impact]
  IN  IF impactDiff # 0 THEN impactDiff ELSE b.detectedAt - a.detectedAt

\* Array.prototype.sort is stable: an element goes behind every element that
\* does not have to follow it
insertSorted(sorted, a) ==
  LET later == {k \in 1..Len(sorted) : compareAlerts(sorted[k], a) > 0}
      at == IF later = {} THEN Len(sorted) + 1
            ELSE CHOOSE k \in later : \A j \in later : k <= j
  IN  SubSeq(sorted, 1, at - 1) \o <<a>> \o SubSeq(sorted, at, Len(sorted))

RECURSIVE sortAlerts(_)
sortAlerts(arr) ==
  IF Len(arr) = 0 THEN <<>>
  ELSE insertSorted(sortAlerts(SubSeq(arr, 1, Len(arr) - 1)), arr[Len(arr)])

\* forEach with an analysis that does not return at the first tier it finds:
\* one alert for every tier whose threshold the item meets
RECURSIVE forEachItemAllTiers(_, _, _)
forEachItemAllTiers(items, times, i) ==
  IF i > Len(items) THEN <<>>
  ELSE LET text == textToAnalyze(items[i])
           high == findKeywords(text, HIGH_IMPACT_KEYWORDS)
           medium == findKeywords(text, MEDIUM_IMPACT_KEYWORDS)
           low == findKeywords(text, LOW_IMPACT_KEYWORDS)
       IN  (IF Len(high) > 0
              THEN <<createAlert(items[i], "high", high, i - 1, times[i])>>
              ELSE <<>>)
             \o (IF Len(medium) > 1
                   THEN <<createAlert(items[i], "medium", medium, i - 1, times[i])>>
                   ELSE <<>>)
             \o (IF Len(low) > 2
                   THEN <<createAlert(items[i], "low", low, i - 1, times[i])>>
                   ELSE <<>>)
             \o forEachItemAllTiers(items, times, i + 1)

\* newsItems.forEach: items[i] has index i - 1 and is analysed at times[i]
RECURSIVE forEachItem(_, _, _)
forEachItem(items, times, i) ==
  IF i > Len(items) THEN <<>>
  ELSE LET alert == analyzeNewsItem(items[i], i - 1, times[i])
       IN  (IF alert # null THEN <<alert>> ELSE <<>>)
             \o forEachItem(items, times, i + 1)

\* detectAlerts that keeps the first alert only
detectAlertsTopOne(items, times) ==
  LET sorted == sortAlerts(forEachItem(items, times, 1))
  IN  SubSeq(sorted, 1, IF Len(sorted) < 1 THEN Len(sorted) ELSE 1)

detectAlerts(items, times) == sortAlerts(forEachItem(items, times, 1))

\* the clock at each callback of the pass: it starts at t0 and advances by
\* ticks[i] between the callbacks of items i and i + 1.  The two reads of one
\* createAlert call (Date.now() for the id, new Date() for detectedAt) see
\* the same tick.
RECURSIVE clockAt(_, _, _)
clockAt(t0, ticks, i) ==
  IF i <= 1 THEN t0 ELSE clockAt(t0, ticks, i - 1) + ticks[i - 1]

(***************************************************************************)
(* Inputs of the detector.                                                 *)
(***************************************************************************)
Titles ==
  {"Fed Update", "Profit report", "Trend analysis"}

Summaries ==
  {"", "Revenue forecast, earnings growth report, new trend",
   "Strategy update, event plan"}

\* items as the news view hands them over: title and summary, either missing
PlainItems ==
  {[title |-> t, summary |-> s] : t \in Titles, s \in Summaries}
    \cup {[title |-> t] : t \in Titles}
    \cup {[summary |-> s] : s \in Summaries}

\* items with a headline, a category or a source
OtherItems ==
  {[headline |-> "Federal Reserve meeting", category |-> "forex",
    source |-> "Reuters"],
   [title |-> "Interest", summary |-> "rates plan"],
   [title |-> "", headline |-> "Operating Plan", summary |-> "Q3 Earnings Beat"],
   [headline |-> "Exchange launch plan", source |-> ""],
   [title |-> "Sales growth", source |-> "Bloomberg"],
   [title |-> "Trend analysis", headline |-> "Plan"]}

NewsItemPool == PlainItems \cup OtherItems

Batches == UNION {[1..n -> NewsItemPool] : n \in 0..MaxBatch}

(***************************************************************************)
(* IEEE-754 doubles.  Every number the sentiment score takes is a multiple *)
(* of 2^-56 (the unit in the last place of 0.1); a double is held as its   *)
(* sign and its magnitude hi * 2^28 + lo in that unit, and an operation    *)
(* rounds its exact result to 53 significant bits, ties to even.           *)
(***************************************************************************)
Limb == 2^28

RECURSIVE bitLength(_)
bitLength(n) == IF n = 0 THEN 0 ELSE 1 + bitLength(n \div 2)

magLess(a, b) == a.hi < b.hi \/ (a.hi = b.hi /\ a.lo < b.lo)

magAdd(a, b) ==
  LET lo == a.lo + b.lo
  IN  [hi |-> a.hi + b.hi + (lo \div Limb), lo |-> lo % Limb]

\* a - b for magnitudes with b <= a
magSub(a, b) ==
  IF a.lo < b.lo THEN [hi |-> a.hi - b.hi - 1, lo |-> a.lo + Limb - b.lo]
  ELSE [hi |-> a.hi - b.hi, lo |-> a.lo - b.lo]

\* round an exact magnitude to 53 significant bits, ties to even
roundToDouble(m) ==
  LET bits == IF m.hi > 0 THEN 28 + bitLength(m.hi) ELSE bitLength(m.lo)
      q == 2^(bits - 53)
      r == m.lo % q
      down == m.lo - r
      up == 2 * r > q \/ (2 * r = q /\ (down \div q) % 2 = 1)
      lo == IF up THEN down + q ELSE down
  IN  IF bits <= 53 THEN m
      ELSE IF lo = Limb THEN [hi |-> m.hi + 1, lo |-> 0]
      ELSE [hi |-> m.hi, lo |-> lo]

signed(neg, m) == [neg |-> neg /\ (m.hi # 0 \/ m.lo # 0), hi |-> m.hi, lo |-> m.lo]

\* a + b
doubleAdd(a, b) ==
  IF a.neg = b.neg THEN signed(a.neg, roundToDouble(magAdd(a, b)))
  ELSE IF magLess(a, b) THEN signed(b.neg, roundToDouble(magSub(b, a)))
  ELSE signed(a.neg, roundToDouble(magSub(a, b)))

\* a < b
doubleLess(a, b) ==
  IF a.neg /\ ~b.neg THEN TRUE
  ELSE IF ~a.neg /\ b.neg THEN FALSE
  ELSE IF a.neg THEN magLess(b, a)
  ELSE magLess(a, b)

MathMax(a, b) == IF doubleLess(a, b) THEN b ELSE a
MathMin(a, b) == IF doubleLess(b, a) THEN b ELSE a

\* the doubles the literals 0, 0.1, 1 and -1 denote
Zero == [neg |-> FALSE, hi |-> 0, lo |-> 0]
Tenth == [neg |-> FALSE, hi |-> 26843545, lo |-> 161061274]
One == [neg |-> FALSE, hi |-> Limb, lo |-> 0]
MinusOne == [neg |-> TRUE, hi |-> Limb, lo |-> 0]
MinusTenth == [neg |-> TRUE, hi |-> 26843545, lo |-> 161061274]

(***************************************************************************)
(* FinnhubService: sentiment score and label.                              *)
(***************************************************************************)
\* positiveWords without 'growth'
positiveWordsNoGrowth ==
  <<"up", "rise", "gain", "positive", "bull", "strong", "high", "increase">>

positiveWords ==
  <<"up", "rise", "gain", "growth", "positive", "bull", "strong", "high",
    "increase">>

negativeWords ==
  <<"down", "fall", "loss", "decline", "negative", "bear", "weak", "low",
    "decrease">>

\* `${v}` for a value that may be undefined
templateString(v) == IF v = <<>> THEN "undefined" ELSE v[1]

\* words.forEach(word => { if (text.includes(word)) score += step }), where
\* score -= 0.1 is score += -0.1
RECURSIVE scoreWords(_, _, _, _, _)
scoreWords(text, words, i, score, step) ==
  IF i > Len(words) THEN score
  ELSE scoreWords(text, words, i + 1,
                  IF includes(text, words[i]) THEN doubleAdd(score, step)
                  ELSE score,
                  step)

\* calculateSentiment with a step of 0.5 for a word and without the clamp
Half == [neg |-> FALSE, hi |-> Limb \div 2, lo |-> 0]
MinusHalf == [neg |-> TRUE, hi |-> Limb \div 2, lo |-> 0]

calculateSentimentUnclamped(headline, summary) ==
  LET text == toLowerCase(templateString(headline) \o " "
                            \o templateString(summary))
      afterPositive == scoreWords(text, positiveWords, 1, Zero, Half)
  IN  scoreWords(text, negativeWords, 1, afterPositive, MinusHalf)

calculateSentiment(headline, summary) ==
  LET text == toLowerCase(templateString(headline) \o " "
                            \o templateString(summary))
      afterPositive == scoreWords(text, positiveWords, 1, Zero, Tenth)
      score == scoreWords(text, negativeWords, 1, afterPositive, MinusTenth)
  IN  MathMax(MinusOne, MathMin(One, score))

\* getSentimentLabel with >= 0.1 and <= -0.1
getSentimentLabelInclusive(headline, summary) ==
  LET sentiment == calculateSentiment(headline, summary)
  IN  IF ~doubleLess(sentiment, Tenth) THEN "positive"
      ELSE IF ~doubleLess(MinusTenth, sentiment) THEN "negative"
      ELSE "neutral"

getSentimentLabel(headline, summary) ==
  LET sentiment == calculateSentiment(headline, summary)
  IN  IF doubleLess(Tenth, sentiment) THEN "positive"
      ELSE IF doubleLess(sentiment, MinusTenth) THEN "negative"
      ELSE "neutral"

(***************************************************************************)
(* FinnhubService.convertFinnhubNewsToAppFormat.                           *)
(***************************************************************************)
\* String.prototype.split for a one-character separator
RECURSIVE splitFrom(_, _, _, _)
splitFrom(s, separator, start, i) ==
  IF i > Len(s) THEN <<SubSeq(s, start, Len(s))>>
  ELSE IF SubSeq(s, i, i) = separator
    THEN <<SubSeq(s, start, i - 1)>> \o splitFrom(s, separator, i + 1, i + 1)
  ELSE splitFrom(s, separator, start, i + 1)

split(s, separator) == splitFrom(s, separator, 1, 1)

\* String.prototype.trim
RECURSIVE trim(_)
trim(s) ==
  IF Len(s) > 0 /\ SubSeq(s, 1, 1) = " " THEN trim(SubSeq(s, 2, Len(s)))
  ELSE IF Len(s) > 0 /\ SubSeq(s, Len(s), Len(s)) = " "
    THEN trim(SubSeq(s, 1, Len(s) - 1))
  ELSE s

\* item[field] handed on as a value: << >> when it is undefined
valueOf(item, field) == IF Has(item, field) THEN <<item[field]>> ELSE << >>

\* the property name : item[field] of an object literal; a property whose
\* value is undefined is left out of the record
property(name, item, field) ==
  IF Has(item, field) THEN name :> item[field] ELSE [x \in {} |-> x]

\* new Date(item.datetime * 1000).toISOString() throws a RangeError for the
\* invalid date that a missing datetime gives
toISOStringThrows(item) == ~Has(item, "datetime")

\* the callback of finnhubNews.map; impactScore is Math.random() * 10.
\* publishedAt is held as the time value whose ISO rendering it is, the id
\* `finnhub-${...}` as its two parts.
formatItem(item, index, impactScore) ==
  [id |-> <<"finnhub", IF Has(item, "id") /\ item.id # 0 THEN item.id ELSE index>>,
   publishedAt |-> item.datetime * 1000,
   sentiment |-> calculateSentiment(valueOf(item, "headline"),
                                    valueOf(item, "summary")),
   sentimentLabel |-> getSentimentLabel(valueOf(item, "headline"),
                                        valueOf(item, "summary")),
   impactScore |-> impactScore,
   relatedStocks |-> IF Has(item, "related") /\ item.related # ""
                       THEN LET parts == split(item.related, ",")
                            IN  [k \in 1..Len(parts) |-> trim(parts[k])]
                       ELSE <<>>]
    @@ property("title", item, "headline")
    @@ property("source", item, "source")
    @@ property("url", item, "url")
    @@ property("summary", item, "summary")
    @@ property("imageUrl", item, "image")

convertFinnhubNewsToAppFormat(records, impactScores) ==
  [i \in 1..Len(records) |-> formatItem(records[i], i - 1, impactScores[i])]

(***************************************************************************)
(* Inputs of the converter.                                                *)
(***************************************************************************)
\* values of Math.random() * 10
ImpactScores == {0, 5}

FinnhubRecord(id, headline, summary) ==
  [category |-> "general", datetime |-> 1700, headline |-> headline, id |-> id,
   image |-> "https://picsum.photos/seed/fed-news/400/200",
   related |-> "AAPL, MSFT ,JPM", source |-> "Reuters", summary |-> summary,
   url |-> "#"]

FinnhubRecordPool ==
  {FinnhubRecord(1, "Federal Reserve Signals Rate Changes", ""),
   FinnhubRecord(2, "Company reports strong growth and profit increase", ""),
   FinnhubRecord(0, "Strong gain", "Rise was weak, volume low"),
   FinnhubRecord(4, "Strong gain", "Weak outlook"),
   FinnhubRecord(5, "Bull market at new HIGH, up on growth",
                 "Positive increase: shares rise, strong gain"),
   FinnhubRecord(6, "Bear market: negative news, decrease and decline",
                 "Weak prices fall to a low, down on a loss"),
   FinnhubRecord(7, "Growth slowdown", "Heavy loss"),
   [datetime |-> 1800, headline |-> "Shares rise", id |-> 8],
   [datetime |-> 1900, summary |-> "Weak demand", related |-> ""],
   [datetime |-> 0, headline |-> "Slowdown", summary |-> "Upbeat", source |-> ""],
   [headline |-> "Stocks gain", summary |-> "No timestamp", id |-> 11]}

RecordBatches == UNION {[1..n -> FinnhubRecordPool] : n \in 0..MaxRecords}

(***************************************************************************)
(* The detector as a state machine: one call of detectAlerts.              *)
(***************************************************************************)
Init ==
  /\ newsItems \in Batches
  /\ alerts = <<>>
  /\ now = 0
  /\ pc = "ready"
  /\ finnhubNews = <<>>
  /\ formattedNews = <<>>
  /\ cpc = "idle"
  /\ firstAlerts = <<>>
  /\ impactCall = <<>>
  /\ InitialRender

\* detectAlerts that leaves its argument reversed, as newsItems.reverse()
\* would
DetectAlertsReversingInput ==
  /\ pc = "ready"
  /\ \E ticks \in [1..(Len(newsItems) - 1) -> {0, 1}] :
       LET times == [i \in 1..Len(newsItems) |-> clockAt(now, ticks, i)]
       IN  /\ alerts' = detectAlerts(newsItems, times)
           /\ now' = clockAt(now, ticks, Len(newsItems))
  /\ newsItems' = [i \in 1..Len(newsItems) |-> newsItems[Len(newsItems) + 1 - i]]
  /\ pc' = "returned"
  /\ UNCHANGED <<converterVars, firstAlerts, impactCall, viewVars>>

\* detectAlerts that takes the items out of its argument, as
\* newsItems.shift() would
DetectAlertsConsumingInput ==
  /\ pc = "ready"
  /\ \E ticks \in [1..(Len(newsItems) - 1) -> {0, 1}] :
       LET times == [i \in 1..Len(newsItems) |-> clockAt(now, ticks, i)]
       IN  /\ alerts' = detectAlerts(newsItems, times)
           /\ now' = clockAt(now, ticks, Len(newsItems))
  /\ newsItems' = <<>>
  /\ pc' = "returned"
  /\ UNCHANGED <<converterVars, firstAlerts, impactCall, viewVars>>

DetectAlerts ==
  /\ pc = "ready"
  /\ \E ticks \in [1..(Len(newsItems) - 1) -> {0, 1}] :
       LET times == [i \in 1..Len(newsItems) |-> clockAt(now, ticks, i)]
       IN  /\ alerts' = detectAlerts(newsItems, times)
           /\ now' = clockAt(now, ticks, Len(newsItems))
  /\ pc' = "returned"
  /\ UNCHANGED <<newsItems, converterVars, firstAlerts, impactCall, viewVars>>

Next == DetectAlerts

Spec == Init /\ [][Next]_vars

(***************************************************************************)
(* The converter as a state machine: one call of                           *)
(* convertFinnhubNewsToAppFormat.                                          *)
(***************************************************************************)
InitConverter ==
  /\ finnhubNews \in RecordBatches
  /\ formattedNews = <<>>
  /\ cpc = "ready"
  /\ newsItems = <<>>
  /\ alerts = <<>>
  /\ now = 0
  /\ pc = "idle"
  /\ firstAlerts = <<>>
  /\ impactCall = <<>>
  /\ InitialRender

ConvertReturns ==
  /\ cpc = "ready"
  /\ \A i \in 1..Len(finnhubNews) : ~toISOStringThrows(finnhubNews[i])
  /\ \E impactScores \in [1..Len(finnhubNews) -> ImpactScores] :
       formattedNews' = convertFinnhubNewsToAppFormat(finnhubNews, impactScores)
  /\ cpc' = "returned"
  /\ UNCHANGED <<finnhubNews, detectorVars, firstAlerts, impactCall, viewVars>>

ConvertThrows ==
  /\ cpc = "ready"
  /\ \E i \in 1..Len(finnhubNews) : toISOStringThrows(finnhubNews[i])
  /\ cpc' = "threw"
  /\ UNCHANGED <<finnhubNews, formattedNews, detectorVars, firstAlerts, impactCall, viewVars>>

NextConverter == ConvertReturns \/ ConvertThrows

SpecConverter == InitConverter /\ [][NextConverter]_vars

(***************************************************************************)
(* Two detectAlerts calls, one after the other, on the same list.          *)
(***************************************************************************)
\* the batches of the items that have a headline, a category or a source
RepeatBatches == UNION {[1..n -> OtherItems] : n \in 0..MaxBatch}

InitRepeat ==
  /\ newsItems \in RepeatBatches
  /\ alerts = <<>>
  /\ now = 0
  /\ pc = "ready"
  /\ finnhubNews = <<>>
  /\ formattedNews = <<>>
  /\ cpc = "idle"
  /\ firstAlerts = <<>>
  /\ impactCall = <<>>
  /\ InitialRender

\* the second call; the clock may have advanced since the first returned
DetectAlertsAgain ==
  /\ pc = "returned"
  /\ \E gap \in {0, 1} :
       \E ticks \in [1..(Len(newsItems) - 1) -> {0, 1}] :
         LET times == [i \in 1..Len(newsItems) |->
                         clockAt(now + gap, ticks, i)]
         IN  /\ alerts' = detectAlerts(newsItems, times)
             /\ now' = clockAt(now + gap, ticks, Len(newsItems))
  /\ firstAlerts' = alerts
  /\ pc' = "returnedAgain"
  /\ UNCHANGED <<newsItems, converterVars, impactCall, viewVars>>

NextRepeat == DetectAlerts \/ DetectAlertsAgain

SpecRepeat == InitRepeat /\ [][NextRepeat]_vars

(***************************************************************************)
(* One detectAlerts call on a single item whose title, summary and         *)
(* headline are three different terms of the reporting vocabulary.         *)
(***************************************************************************)
\* 'forecast' of the medium table (line 72) and seven keywords of the low
\* table (lines 97-108)
ReportingTerms ==
  {"announcement", "update", "report", "analysis", "commentary", "forecast",
   "trend", "strategy"}

VocabularyItems ==
  {[title |-> a, summary |-> b, headline |-> c] :
     <<a, b, c>> \in {t \in ReportingTerms \X ReportingTerms \X ReportingTerms :
                        t[1] # t[2] /\ t[1] # t[3] /\ t[2] # t[3]}}

InitVocabulary ==
  /\ newsItems \in {<<item>> : item \in VocabularyItems}
  /\ alerts = <<>>
  /\ now = 0
  /\ pc = "ready"
  /\ finnhubNews = <<>>
  /\ formattedNews = <<>>
  /\ cpc = "idle"
  /\ firstAlerts = <<>>
  /\ impactCall = <<>>
  /\ InitialRender

SpecVocabulary == InitVocabulary /\ [][Next]_vars

(***************************************************************************)
(* FinnhubService.getMarketNews and getFallbackNews.                       *)
(***************************************************************************)
\* getFallbackNews; t is Date.now() at the call
getFallbackNews(category, t) ==
  LET categoryNews ==
        [general |->
           <<[category |-> "general",
              datetime |-> t \div 1000,
              headline |-> "Federal Reserve Signals Potential Rate Changes Amid Economic Uncertainty",
              id |-> 1,
              image |-> "https://picsum.photos/seed/fed-news/400/200",
              related |-> "AAPL,GOOGL,MSFT,JPM",
              source |-> "Reuters",
              summary |-> "The Federal Reserve indicated possible adjustments to interest rates as economic data shows mixed signals about inflation and growth.",
              url |-> "#"],
             [category |-> "general",
              datetime |-> (t \div 1000) - 1800,
              headline |-> "Tech Giants Report Strong Earnings Despite Market Volatility",
              id |-> 2,
              image |-> "https://picsum.photos/seed/tech-earnings/400/200",
              related |-> "AAPL,MSFT,GOOGL,META",
              source |-> "Bloomberg",
              summary |-> "Major technology companies exceeded earnings expectations, providing a boost to investor confidence in the sector.",
              url |-> "#"]>>,
         forex |->
           <<[category |-> "forex",
              datetime |-> t \div 1000,
              headline |-> "USD Strengthens Against Major Currencies Following Fed Comments",
              id |-> 3,
              image |-> "https://picsum.photos/seed/forex-usd/400/200",
              related |-> "EUR,GBP,JPY",
              source |-> "Forex.com",
              summary |-> "The US dollar gained ground as Federal Reserve officials hinted at maintaining current monetary policy stance.",
              url |-> "#"]>>,
         crypto |->
           <<[category |-> "crypto",
              datetime |-> t \div 1000,
              headline |-> "Bitcoin Surges Past $45,000 as Institutional Interest Grows",
              id |-> 4,
              image |-> "https://picsum.photos/seed/bitcoin-rally/400/200",
              related |-> "BTC,ETH,ADA",
              source |-> "CoinDesk",
              summary |-> "Bitcoin reached new monthly highs as major financial institutions announced increased cryptocurrency exposure.",
              url |-> "#"]>>,
         merger |->
           <<[category |-> "merger",
              datetime |-> t \div 1000,
              headline |-> "Major Tech Acquisition Deal Worth $50 Billion Announced",
              id |-> 5,
              image |-> "https://picsum.photos/seed/merger-deal/400/200",
              related |-> "AAPL,MSFT,GOOGL",
              source |-> "Wall Street Journal",
              summary |-> "A significant merger agreement was announced today, potentially reshaping the competitive landscape in the technology sector.",
              url |-> "#"]>>]
  IN  IF category \in DOMAIN categoryNews THEN categoryNews[category]
      ELSE categoryNews.general

\* the proxies tried in order by getMarketNews
Proxies ==
  <<"https://api.allorigins.win/get?url=", "https://corsproxy.io/?",
    "https://cors-anywhere.herokuapp.com/">>

\* Array.isArray(data) && data.length > 0; what a proxy delivered is held as
\* [kind |-> "array", items |-> the list] or as [kind |-> "object"]
isNonEmptyArray(data) == data.kind = "array" /\ Len(data.items) > 0

\* what a proxy can deliver: something that is not an array (an error
\* object), an empty array, two records, five records whose alerts are of
\* all three impacts, and a record without datetime
ProxyData ==
  {[kind |-> "object"],
   [kind |-> "array", items |-> <<>>],
   [kind |-> "array",
    items |-> <<FinnhubRecord(1, "Federal Reserve Signals Rate Changes", ""),
                FinnhubRecord(7, "Growth slowdown", "Heavy loss")>>],
   [kind |-> "array",
    items |-> <<FinnhubRecord(21, "Trend report", "Analysis and opinion"),
                FinnhubRecord(22, "Merger talks", ""),
                FinnhubRecord(23, "Revenue growth", ""),
                FinnhubRecord(24, "Market crash fears", ""),
                FinnhubRecord(25, "Profit outlook", "")>>],
   [kind |-> "array",
    items |-> <<[headline |-> "Stocks gain", summary |-> "No timestamp",
                 id |-> 11]>>]}

(***************************************************************************)
(* generateNewsData: the mock news of the view.                            *)
(***************************************************************************)
\* a non-negative integer in a template string or a string concatenation
RECURSIVE numberToString(_)
numberToString(n) ==
  LET digits == <<"0", "1", "2", "3", "4", "5", "6", "7", "8", "9">>
  IN  IF n < 10 THEN digits[n + 1]
      ELSE numberToString(n \div 10) \o digits[(n % 10) + 1]

\* generateNewsData; random[i] holds what the calls of Math.random() for
\* item i - 1 give: the indices Math.floor selects (stock, title, source),
\* Math.random() of the sentiment in hundredths, the age of the item in
\* ticks and its impact score in tenths; t is Date.now().  sentiment is held
\* in hundredths, as toFixed(2) leaves it.
generateNewsData(random, t) ==
  LET sources == <<"Bloomberg", "Reuters", "CNBC", "MarketWatch",
                   "Yahoo Finance", "The Wall Street Journal">>
      stocks == <<"AAPL", "GOOGL", "MSFT", "TSLA", "AMZN", "META", "NVDA">>
      item(i) ==
        LET stock == stocks[random[i + 1].stock + 1]
            sentiment == random[i + 1].sentiment - 30
            sentimentLabel == IF sentiment > 20 THEN "positive"
                              ELSE IF sentiment < -20 THEN "negative"
                              ELSE "neutral"
            titles ==
              [positive |-> <<stock \o " surges on strong earnings report",
                              stock \o " announces breakthrough technology",
                              stock \o " exceeds analyst expectations">>,
               negative |-> <<stock \o " faces regulatory challenges",
                              stock \o " misses revenue targets",
                              stock \o " stock drops amid market concerns">>,
               neutral  |-> <<stock \o " reports quarterly results",
                              stock \o " announces leadership changes",
                              stock \o " market analysis">>]
            titleList == titles[sentimentLabel]
        IN  [id |-> <<"news", i>>,
             title |-> titleList[random[i + 1].title + 1],
             source |-> sources[random[i + 1].source + 1],
             url |-> "#",
             publishedAt |-> t - random[i + 1].age,
             sentiment |-> sentiment,
             sentimentLabel |-> sentimentLabel,
             impactScore |-> random[i + 1].impact,
             relatedStocks |->
               <<stock>> \o SubSeq(SelectSeq(stocks, LAMBDA s : s # stock), 1, 2),
             summary |-> "This article discusses the latest developments affecting "
                           \o stock
                           \o " and its potential impact on the market...",
             imageUrl |-> "https://picsum.photos/seed/" \o numberToString(i)
                            \o "/400/200"]
  IN  [k \in 1..20 |-> item(k - 1)]

\* outcomes of Math.random() for one item: a positive, a negative and a
\* neutral one, away from the two thresholds of the label
RandomOutcomes ==
  <<[stock |-> 0, sentiment |-> 90, title |-> 0, source |-> 0, age |-> 0,
     impact |-> 75],
    [stock |-> 3, sentiment |-> 0, title |-> 1, source |-> 1, age |-> 1,
     impact |-> 0],
    [stock |-> 6, sentiment |-> 40, title |-> 2, source |-> 5, age |-> 2,
     impact |-> 99]>>

\* outcomes for the twenty items of one call: the three outcomes in turn, or
\* the neutral one for every item
RandomDraws ==
  {[k \in 1..20 |-> RandomOutcomes[((k - 1) % 3) + 1]],
   [k \in 1..20 |-> RandomOutcomes[3]]}

\* slice taking the elements from the end of the array
sliceFromEnd(arr, start, end) ==
  SubSeq(arr, IF Len(arr) > end - start THEN Len(arr) - (end - start) + 1
              ELSE 1, Len(arr))

(***************************************************************************)
(* NewsIntelligence: the News view.  A fetchNews call in flight is held as *)
(* the category it asked for and the proxy getMarketNews is waiting on.    *)
(* The detector's and the converter's variables hold the argument and the  *)
(* result of the latest call the view made of each.                        *)
(***************************************************************************)
\* Array.prototype.slice(start, end) for 0 <= start <= end
slice(arr, start, end) ==
  SubSeq(arr, start + 1, IF end < Len(arr) THEN end ELSE Len(arr))

\* the values of the clock in the view: two detection passes read the same
\* value of Date.now() or the later one reads a later value
ViewClock == {0, 1}

\* Math.random() * 10 in the conversions of the view: one of ImpactScores,
\* the same for every record
ViewImpactScores == {5}

\* by how much the clock has advanced when it is read again
Ticks == {tick \in {0, 1} : now + tick \in ViewClock}

\* the lists getMarketNews can return: the data of a proxy that passed its
\* test, or the fallback list of a category
ViewRecordLists ==
  {data.items : data \in {d \in ProxyData : isNonEmptyArray(d)}}
    \cup {getFallbackNews(category, t) :
            category \in {"general", "forex", "crypto", "merger"},
            t \in ViewClock}

\* fetchNews from the return of getMarketNews to setNews, for each outcome
\* of Math.random(): the conversion, its result or its exception (cpc), and
\* the list handed to setNews; t is Date.now()
fetchNewsOutcomes(records, t) ==
  IF \E i \in 1..Len(records) : toISOStringThrows(records[i])
    THEN {[cpc |-> "threw", formattedNews |-> <<>>,
           news |-> generateNewsData(random, t)] : random \in RandomDraws}
  ELSE UNION {
         LET converted ==
               convertFinnhubNewsToAppFormat(
                 records, [i \in 1..Len(records) |-> impactScore])
         IN  IF Len(converted) = 0
               THEN {[cpc |-> "returned", formattedNews |-> converted,
                      news |-> generateNewsData(random, t)] :
                       random \in RandomDraws}
             ELSE {[cpc |-> "returned", formattedNews |-> converted,
                    news |-> converted]} :
         impactScore \in ViewImpactScores}

\* fetchNewsOutcomes for every list getMarketNews can return and every value
\* of the clock of the view, computed once
fetchNewsInView ==
  [records \in ViewRecordLists |->
     [t \in ViewClock |-> fetchNewsOutcomes(records, t)]]

\* the lists a fetchNews call can hand to setNews, and the initial list
ViewNewsLists ==
  LET convertible ==
        {records \in ViewRecordLists :
           \A i \in 1..Len(records) : ~toISOStringThrows(records[i])}
  IN  {<<>>}
        \cup {generateNewsData(random, t) : random \in RandomDraws, t \in ViewClock}
        \cup {convertFinnhubNewsToAppFormat(
                records, [i \in 1..Len(records) |-> impactScore]) :
                records \in convertible, impactScore \in ViewImpactScores}

\* AlertDetector.detectAlerts(news) for every list and every value of the
\* clock of the view, computed once
detectAlertsInView ==
  [newsNow \in ViewNewsLists |->
     [t \in ViewClock |->
        detectAlerts(newsNow, [i \in 1..Len(newsNow) |-> t])]]

\* the effect on [news] without the test of news.length
DetectionEffectUnguarded(newsNow) ==
  \E tick \in Ticks :
    LET detectedAlerts == detectAlertsInView[newsNow][now + tick]
        limitedAlerts == slice(detectedAlerts, 0, 3)
    IN  /\ newsItems' = newsNow
        /\ alerts' = detectedAlerts
        /\ pc' = "returned"
        /\ now' = now + tick
        /\ viewAlerts' = limitedAlerts

\* the effect on [news] putting the new alerts behind the displayed ones
DetectionEffectMerging(newsNow) ==
  IF Len(newsNow) > 0
    THEN \E tick \in Ticks :
           LET detectedAlerts == detectAlertsInView[newsNow][now + tick]
               limitedAlerts == slice(viewAlerts \o detectedAlerts, 0, 3)
           IN  /\ newsItems' = newsNow
               /\ alerts' = detectedAlerts
               /\ pc' = "returned"
               /\ now' = now + tick
               /\ viewAlerts' = limitedAlerts
  ELSE UNCHANGED <<newsItems, alerts, pc, now, viewAlerts>>

\* the effect on [news] leaving out the alerts whose title was dismissed
DetectionEffectRemembering(newsNow) ==
  IF Len(newsNow) > 0
    THEN \E tick \in Ticks :
           LET detectedAlerts == detectAlertsInView[newsNow][now + tick]
               limitedAlerts ==
                 slice(SelectSeq(detectedAlerts,
                                 LAMBDA alert :
                                   \A a \in dismissed : a.title # alert.title),
                       0, 3)
           IN  /\ newsItems' = newsNow
               /\ alerts' = detectedAlerts
               /\ pc' = "returned"
               /\ now' = now + tick
               /\ viewAlerts' = limitedAlerts
  ELSE UNCHANGED <<newsItems, alerts, pc, now, viewAlerts>>

\* the effect on [news], run after a render in which news is newsNow; the
\* clock may have advanced since it was last read
DetectionEffect(newsNow) ==
  IF Len(newsNow) > 0
    THEN \E tick \in Ticks :
           LET detectedAlerts == detectAlertsInView[newsNow][now + tick]
               limitedAlerts == slice(detectedAlerts, 0, 3)
           IN  /\ newsItems' = newsNow
               /\ alerts' = detectedAlerts
               /\ pc' = "returned"
               /\ now' = now + tick
               /\ viewAlerts' = limitedAlerts
  ELSE UNCHANGED <<newsItems, alerts, pc, now, viewAlerts>>

\* fetchNews up to its await: setLoading(true), then getMarketNews asks the
\* first proxy
fetchNewsCalled(category) ==
  /\ loading' = TRUE
  /\ fetches' = Append(fetches, [category |-> category, proxy |-> 1])
  /\ started' = started + 1

\* fetchNews from the return of getMarketNews on, for the call at position k:
\* the conversion, setNews, setLoading(false), and the effect on [news] of
\* the render that follows
fetchNewsResumes(k, records) ==
  \E outcome \in fetchNewsInView[records][now] :
    /\ finnhubNews' = records
    /\ formattedNews' = IF outcome.cpc = "threw" THEN formattedNews
                        ELSE outcome.formattedNews
    /\ cpc' = outcome.cpc
    /\ news' = outcome.news
    /\ loading' = FALSE
    /\ fetches' = SubSeq(fetches, 1, k - 1) \o SubSeq(fetches, k + 1, Len(fetches))
    /\ fetchedFor' = <<fetches[k].category>>
    /\ DetectionEffect(outcome.news)
    /\ UNCHANGED <<newsCategory, started, firstAlerts, impactCall,
                   dismissed>>

\* getMarketNews starting over with the first proxy after the last one
nextProxyRetrying(k) ==
  /\ fetches' = [fetches EXCEPT ![k].proxy = (@ % Len(Proxies)) + 1]
  /\ UNCHANGED <<news, loading, newsCategory, viewAlerts, started,
                 detectorVars, converterVars, firstAlerts, impactCall,
                 fetchedFor, dismissed>>

\* getMarketNews goes on to the next proxy, or returns the fallback list
\* after the last one
nextProxy(k) ==
  IF fetches[k].proxy < Len(Proxies)
    THEN /\ fetches' = [fetches EXCEPT ![k].proxy = @ + 1]
         /\ UNCHANGED <<news, loading, newsCategory, viewAlerts, started,
                        detectorVars, converterVars, firstAlerts, impactCall,
                        fetchedFor, dismissed>>
  ELSE \E fallback \in {getFallbackNews(fetches[k].category, now)} :
         fetchNewsResumes(k, fallback)

InitView ==
  /\ InitialRender
  /\ newsItems = <<>>
  /\ alerts = <<>>
  /\ now = 0
  /\ pc = "idle"
  /\ finnhubNews = <<>>
  /\ formattedNews = <<>>
  /\ cpc = "idle"
  /\ firstAlerts = <<>>
  /\ impactCall = <<>>

\* the effects of the first render: the effect on [news], then fetchNews
Mount ==
  /\ started = 0
  /\ DetectionEffect(news)
  /\ fetchNewsCalled(newsCategory)
  /\ UNCHANGED <<news, newsCategory, converterVars, firstAlerts, impactCall,
                 fetchedFor, dismissed>>

\* the interval of 20 seconds fires
TimerTick ==
  /\ started \in 1..(MaxFetches - 1)
  /\ fetchNewsCalled(newsCategory)
  /\ UNCHANGED <<news, newsCategory, viewAlerts, detectorVars, converterVars,
                 firstAlerts, impactCall, fetchedFor, dismissed>>

\* the Refresh button, disabled while loading
Refresh ==
  /\ started \in 1..(MaxFetches - 1)
  /\ ~loading
  /\ fetchNewsCalled(newsCategory)
  /\ UNCHANGED <<news, newsCategory, viewAlerts, detectorVars, converterVars,
                 firstAlerts, impactCall, fetchedFor, dismissed>>

\* another category is selected: setNewsCategory, then the effect on
\* [newsCategory] calls fetchNews
SelectCategory(category) ==
  /\ started \in 1..(MaxFetches - 1)
  /\ category # newsCategory
  /\ newsCategory' = category
  /\ fetchNewsCalled(category)
  /\ UNCHANGED <<news, viewAlerts, detectorVars, converterVars, firstAlerts,
                 impactCall, fetchedFor, dismissed>>

\* the ids dismissAlert is called with: the button of a displayed alert,
\* and the ids of the first four alerts of the last detection pass, which
\* are not all displayed
DismissibleIds ==
  {viewAlerts[i].id : i \in DOMAIN viewAlerts}
    \cup {alerts[i].id : i \in DOMAIN slice(alerts, 0, 4)}

\* dismissAlert removing the alert of that id and every alert behind it
dismissAlertAndLater(alertId) ==
  /\ viewAlerts' =
       SubSeq(viewAlerts, 1,
              Cardinality({i \in DOMAIN viewAlerts :
                             \A j \in 1..i : viewAlerts[j].id # alertId}))
  /\ UNCHANGED <<news, loading, newsCategory, fetches, started, fetchedFor,
                 detectorVars, converterVars, firstAlerts, impactCall>>

\* dismissAlert(alertId): setAlerts(prev => prev.filter(...))
dismissAlert(alertId) ==
  /\ viewAlerts' = SelectSeq(viewAlerts, LAMBDA alert : alert.id # alertId)
  /\ UNCHANGED <<news, loading, newsCategory, fetches, started, fetchedFor,
                 detectorVars, converterVars, firstAlerts, impactCall>>

\* the proxy the call at position k waits on delivers data
ProxyAnswers(k, data) ==
  IF isNonEmptyArray(data) THEN fetchNewsResumes(k, data.items)
  ELSE nextProxy(k)

\* the request to that proxy fails or times out, or its answer does not parse
ProxyFails(k) == nextProxy(k)

NextView ==
  \/ Mount
  \/ TimerTick
  \/ Refresh
  \/ \E category \in {"general", "forex", "crypto", "merger"} :
       SelectCategory(category)
  \/ \E alertId \in DismissibleIds :
       dismissAlert(alertId) /\ UNCHANGED dismissed
  \/ \E k \in DOMAIN fetches : \E data \in ProxyData : ProxyAnswers(k, data)
  \/ \E k \in DOMAIN fetches : ProxyFails(k)

SpecView == InitView /\ [][NextView]_vars

\* dismissAlert(alertId), with the alerts it removes added to the history
dismissAlertRecorded(alertId) ==
  /\ dismissAlert(alertId)
  /\ dismissed' =
       dismissed \cup {viewAlerts[i] : i \in {j \in DOMAIN viewAlerts :
                                                viewAlerts[j].id = alertId}}

NextViewRecorded ==
  \/ Mount
  \/ TimerTick
  \/ Refresh
  \/ \E category \in {"general", "forex", "crypto", "merger"} :
       SelectCategory(category)
  \/ \E alertId \in DismissibleIds : dismissAlertRecorded(alertId)
  \/ \E k \in DOMAIN fetches : \E data \in ProxyData : ProxyAnswers(k, data)
  \/ \E k \in DOMAIN fetches : ProxyFails(k)

\* the News view with the history of its dismissals
SpecViewRecorded == InitView /\ [][NextViewRecorded]_vars

\* a request to a proxy ends: with a response, or with an error, at the
\* latest by the timeout of 10 seconds axios is called with
ProxyResponds ==
  \E k \in DOMAIN fetches :
    \/ \E data \in ProxyData : ProxyAnswers(k, data)
    \/ ProxyFails(k)

\* the News view under the condition that every request to a proxy ends
SpecViewFair == SpecView /\ WF_vars(ProxyResponds)

(***************************************************************************)
(* AlertDetector.getImpactColor and getImpactIcon.  An argument is a       *)
(* JavaScript value, a record of its type and of its value as a string or  *)
(* as a number; a case label matches by strict equality.  An icon is the   *)
(* sequence of the code points of its string.                              *)
(***************************************************************************)
string(value) == [type |-> "string", value |-> value]

getImpactColorWithoutLow(impact) ==
  CASE impact = string("high") -> "#ef4444"
    [] impact = string("medium") -> "#f59e0b"
    [] OTHER -> "#6b7280"

getImpactColor(impact) ==
  CASE impact = string("high") -> "#ef4444"
    [] impact = string("medium") -> "#f59e0b"
    [] impact = string("low") -> "#3b82f6"
    [] OTHER -> "#6b7280"

getImpactIconWithoutLow(impact) ==
  CASE impact = string("high") -> <<128680>>
    [] impact = string("medium") -> <<9888, 65039>>
    [] OTHER -> <<128226>>

getImpactIcon(impact) ==
  CASE impact = string("high") -> <<128680>>
    [] impact = string("medium") -> <<9888, 65039>>
    [] impact = string("low") -> <<8505, 65039>>
    [] OTHER -> <<128226>>

\* the spellings of a lower-case word in every mix of upper and lower case
RECURSIVE caseVariants(_)
caseVariants(word) ==
  IF word = "" THEN {""}
  ELSE LET first == SubSeq(word, 1, 1)
           upper == CHOOSE c \in DOMAIN UpperToLower : UpperToLower[c] = first
       IN  {c \o rest : c \in {first, upper},
                        rest \in caseVariants(SubSeq(word, 2, Len(word)))}

\* arguments of the two functions: the three impacts in every mix of case
\* (only the lower-case spelling is a case label), other strings, numbers,
\* null and undefined
ImpactArguments ==
  {string(word) : word \in caseVariants("high") \cup caseVariants("medium")
                             \cup caseVariants("low")
                             \cup {"", "hi", "high ", "critical"}}
    \cup {[type |-> "number", number |-> n] : n \in {0, 1}}
    \cup {[type |-> "null"], [type |-> "undefined"]}

InitImpact ==
  /\ impactCall \in {[impact |-> impact, color |-> <<>>, icon |-> <<>>] :
                       impact \in ImpactArguments}
  /\ InitialRender
  /\ newsItems = <<>>
  /\ alerts = <<>>
  /\ now = 0
  /\ pc = "idle"
  /\ finnhubNews = <<>>
  /\ formattedNews = <<>>
  /\ cpc = "idle"
  /\ firstAlerts = <<>>

\* one call of getImpactColor; its result is kept as <<result>>
GetImpactColor ==
  /\ impactCall.color = <<>>
  /\ impactCall' =
       [impactCall EXCEPT !.color = <<getImpactColor(impactCall.impact)>>]
  /\ UNCHANGED <<detectorVars, converterVars, firstAlerts, viewVars>>

\* one call of getImpactIcon; its result is kept as <<result>>
GetImpactIcon ==
  /\ impactCall.icon = <<>>
  /\ impactCall' =
       [impactCall EXCEPT !.icon = <<getImpactIcon(impactCall.impact)>>]
  /\ UNCHANGED <<detectorVars, converterVars, firstAlerts, viewVars>>

NextImpact == GetImpactColor \/ GetImpactIcon

SpecImpact == InitImpact /\ [][NextImpact]_vars

(***************************************************************************)
(* Properties of the detector, stated over the call's argument and result. *)
(***************************************************************************)
Returned == pc = "returned"

Range(seq) == {seq[k] : k \in DOMAIN seq}

\* the keywords of a table that occur in the text an item is analysed by
present(item, table) ==
  {keyword \in Range(table) : includes(textToAnalyze(item), keyword)}

PoolPresent ==
  [item \in NewsItemPool |->
     [high   |-> present(item, HIGH_IMPACT_KEYWORDS),
      medium |-> present(item, MEDIUM_IMPACT_KEYWORDS),
      low    |-> present(item, LOW_IMPACT_KEYWORDS)]]

highIn(i) == PoolPresent[newsItems[i]].high
mediumIn(i) == PoolPresent[newsItems[i]].medium
lowIn(i) == PoolPresent[newsItems[i]].low

\* the positions in the result of the alerts made for item i (index i - 1)
alertsOf(i) == {j \in DOMAIN alerts : alerts[j].id[3] = i - 1}

\* the item an alert was made for
itemOf(alert) == newsItems[alert.id[3] + 1]

tableOf(impact) ==
  CASE impact = "high" -> HIGH_IMPACT_KEYWORDS
    [] impact = "medium" -> MEDIUM_IMPACT_KEYWORDS
    [] impact = "low" -> LOW_IMPACT_KEYWORDS

positionIn(table, keyword) == CHOOSE p \in DOMAIN table : table[p] = keyword

\* String.prototype.indexOf for a search that occurs in the text
indexOf(text, search) ==
  CHOOSE i \in 1..Len(text) :
    /\ SubSeq(text, i, i + Len(search) - 1) = search
    /\ \A h \in 1..(i - 1) : SubSeq(text, h, h + Len(search) - 1) # search

\* item i meets the threshold of a tier
qualifies(i) ==
  \/ Cardinality(highIn(i)) >= 1
  \/ Cardinality(mediumIn(i)) >= 2
  \/ Cardinality(lowIn(i)) >= 3

\* C1: an item whose text contains a high-impact keyword gets an alert of
\* impact 'high', whatever medium and low keywords the text contains, and the
\* alert's keywords are keywords of the high-impact table only.
C1_HighTierWins ==
  Returned =>
    \A i \in DOMAIN newsItems :
      highIn(i) # {} =>
        /\ alertsOf(i) # {}
        /\ \A j \in alertsOf(i) :
             /\ alerts[j].impact = "high"
             /\ Range(alerts[j].keywords) \subseteq Range(HIGH_IMPACT_KEYWORDS)

\* C1 happens: an item with a high keyword, two medium and three low keywords
\* was classified 'high'
C1_Witness ==
  /\ Returned
  /\ \E i \in DOMAIN newsItems :
       /\ highIn(i) # {}
       /\ Cardinality(mediumIn(i)) >= 2
       /\ Cardinality(lowIn(i)) >= 3
       /\ \E j \in alertsOf(i) : alerts[j].impact = "high"

\* C2 as stated: an item whose text contains exactly one medium-impact
\* keyword and no high-impact keyword gets no alert.
C2_OneMediumNoAlert ==
  Returned =>
    \A i \in DOMAIN newsItems :
      (Cardinality(mediumIn(i)) = 1 /\ highIn(i) = {}) => alertsOf(i) = {}

\* C2 amended: an item whose text contains exactly one medium-impact
\* keyword, no high-impact keyword and at most two low-impact keywords gets no
\* alert.
C2_OneMediumFewLowNoAlert ==
  Returned =>
    \A i \in DOMAIN newsItems :
      (/\ Cardinality(mediumIn(i)) = 1
       /\ highIn(i) = {}
       /\ Cardinality(lowIn(i)) <= 2) => alertsOf(i) = {}

\* C2 amended happens: one medium keyword, two low keywords, no alert
C2_Witness ==
  /\ Returned
  /\ \E i \in DOMAIN newsItems :
       /\ Cardinality(mediumIn(i)) = 1
       /\ highIn(i) = {}
       /\ Cardinality(lowIn(i)) = 2
       /\ alertsOf(i) = {}

\* C3: an item whose text contains at least two medium-impact keywords and
\* no high-impact keyword gets an alert of impact 'medium', also when the text
\* contains three or more low-impact keywords.
C3_TwoMediumGiveMedium ==
  Returned =>
    \A i \in DOMAIN newsItems :
      (Cardinality(mediumIn(i)) >= 2 /\ highIn(i) = {}) =>
        /\ alertsOf(i) # {}
        /\ \A j \in alertsOf(i) : alerts[j].impact = "medium"

\* C3 happens: exactly two medium keywords, and two or more medium keywords
\* together with three low keywords, were classified 'medium'
C3_Witness ==
  /\ Returned
  /\ \E i \in DOMAIN newsItems :
       /\ Cardinality(mediumIn(i)) = 2
       /\ highIn(i) = {}
       /\ \E j \in alertsOf(i) : alerts[j].impact = "medium"
  /\ \E i \in DOMAIN newsItems :
       /\ Cardinality(mediumIn(i)) >= 2
       /\ highIn(i) = {}
       /\ Cardinality(lowIn(i)) >= 3
       /\ \E j \in alertsOf(i) : alerts[j].impact = "medium"

\* C4: an item whose text contains no high-impact and no medium-impact
\* keyword gets an alert of impact 'low' if it contains at least three
\* low-impact keywords, and no alert if it contains two or fewer.
C4_LowTierThreshold ==
  Returned =>
    \A i \in DOMAIN newsItems :
      (highIn(i) = {} /\ mediumIn(i) = {}) =>
        IF Cardinality(lowIn(i)) >= 3
          THEN /\ alertsOf(i) # {}
               /\ \A j \in alertsOf(i) : alerts[j].impact = "low"
          ELSE alertsOf(i) = {}

\* C4 happens: exactly three low keywords gave 'low', exactly two gave nothing
C4_Witness ==
  /\ Returned
  /\ \E i \in DOMAIN newsItems :
       /\ highIn(i) = {} /\ mediumIn(i) = {}
       /\ Cardinality(lowIn(i)) = 3
       /\ \E j \in alertsOf(i) : alerts[j].impact = "low"
  /\ \E i \in DOMAIN newsItems :
       /\ highIn(i) = {} /\ mediumIn(i) = {}
       /\ Cardinality(lowIn(i)) = 2
       /\ alertsOf(i) = {}

\* C5: in the returned list every 'high' alert precedes every 'medium' alert
\* and every 'medium' alert every 'low' alert, and among alerts of one impact
\* an alert detected later never comes after one detected earlier.
C5_SortedByImpactThenTime ==
  Returned =>
    \A j, k \in DOMAIN alerts :
      j < k =>
        /\ impactOrder[alerts[j].impact] >= impactOrder[alerts[k].impact]
        /\ alerts[j].impact = alerts[k].impact =>
             alerts[j].detectedAt >= alerts[k].detectedAt

\* C5 happens: two alerts of one impact, the one created second (detected
\* later) returned first
C5_Witness ==
  /\ Returned
  /\ \E j, k \in DOMAIN alerts :
       /\ j < k
       /\ alerts[j].impact = alerts[k].impact
       /\ alerts[j].detectedAt > alerts[k].detectedAt
       /\ alerts[j].id[3] > alerts[k].id[3]

\* C6: the keywords of an alert are exactly the keywords of the winning
\* tier's table that occur in the item's text, each once, in the order of the
\* table; a text with exactly one high-impact keyword gives the one-element
\* list of that keyword.
C6_KeywordsInTableOrder ==
  Returned =>
    \A j \in DOMAIN alerts :
      LET keywords == alerts[j].keywords
          table == tableOf(alerts[j].impact)
          found == PoolPresent[itemOf(alerts[j])]
      IN  /\ Range(keywords) = found[alerts[j].impact]
          /\ \A x, y \in DOMAIN keywords :
               x < y => positionIn(table, keywords[x]) < positionIn(table, keywords[y])
          /\ Cardinality(found.high) = 1 =>
               \E keyword \in found.high : keywords = <<keyword>>

\* C6 happens: an alert lists two keywords in the order of the table although
\* the second occurs earlier in the text
C6_Witness ==
  /\ Returned
  /\ \E j \in DOMAIN alerts :
       LET keywords == alerts[j].keywords
           text == textToAnalyze(itemOf(alerts[j]))
       IN  \E x, y \in DOMAIN keywords :
             /\ x < y
             /\ indexOf(text, keywords[y]) < indexOf(text, keywords[x])

\* C7: the result holds at most one alert for each item of the batch, so it
\* is never longer than the batch, and every alert has one of the impacts
\* high, medium and low.
C7_AtMostOneAlertPerItem ==
  Returned =>
    /\ Len(alerts) <= Len(newsItems)
    /\ \A i \in DOMAIN newsItems : Cardinality(alertsOf(i)) <= 1
    /\ \A j \in DOMAIN alerts :
         /\ alerts[j].impact \in {"high", "medium", "low"}
         /\ alerts[j].id[3] + 1 \in DOMAIN newsItems

\* C7 happens: an item that meets the thresholds of two tiers has one alert,
\* and another item of the batch has none
C7_Witness ==
  /\ Returned
  /\ \E i \in DOMAIN newsItems :
       /\ highIn(i) # {}
       /\ Cardinality(mediumIn(i)) >= 2
       /\ Cardinality(alertsOf(i)) = 1
  /\ \E i \in DOMAIN newsItems : alertsOf(i) = {}

\* C8: the result holds an alert for every item of the batch that meets a
\* tier threshold (one high, two medium or three low keywords): none is
\* dropped, merged with another or cut off.
C8_EveryQualifyingItemAlerted ==
  Returned =>
    /\ \A i \in DOMAIN newsItems : qualifies(i) => alertsOf(i) # {}
    /\ Len(alerts) >= Cardinality({i \in DOMAIN newsItems : qualifies(i)})

\* C8 happens: the same qualifying item twice in the batch, two alerts
C8_Witness ==
  /\ Returned
  /\ Len(alerts) >= 2
  /\ \E i, k \in DOMAIN newsItems :
       /\ i # k
       /\ newsItems[i] = newsItems[k]
       /\ qualifies(i)
       /\ alertsOf(i) # {} /\ alertsOf(k) # {}

(***************************************************************************)
(* Properties of the converter.                                            *)
(***************************************************************************)
Converted == cpc = "returned"

doubleLeq(a, b) == ~doubleLess(b, a)

\* the text the sentiment of record i is computed from
sentimentText(i) ==
  toLowerCase(templateString(valueOf(finnhubNews[i], "headline")) \o " "
                \o templateString(valueOf(finnhubNews[i], "summary")))

\* C9: the sentiment score of every headline and summary lies in [-1, 1].
C9_SentimentInRange ==
  Converted =>
    \A i \in DOMAIN formattedNews :
      /\ doubleLeq(MinusOne, formattedNews[i].sentiment)
      /\ doubleLeq(formattedNews[i].sentiment, One)

\* C9 happens: a text with all nine positive words, and one with all nine
\* negative words, were scored
C9_Witness ==
  /\ Converted
  /\ \E i \in DOMAIN formattedNews :
       /\ \A word \in Range(positiveWords) : includes(sentimentText(i), word)
       /\ doubleLess(Tenth, formattedNews[i].sentiment)
  /\ \E i \in DOMAIN formattedNews :
       /\ \A word \in Range(negativeWords) : includes(sentimentText(i), word)
       /\ doubleLess(formattedNews[i].sentiment, MinusTenth)

\* C10: for every converted item, sentimentLabel is 'positive' if and only
\* if sentiment > 0.1, 'negative' if and only if sentiment < -0.1, and
\* 'neutral' otherwise.
C10_LabelMatchesScore ==
  Converted =>
    \A i \in DOMAIN formattedNews :
      LET sentiment == formattedNews[i].sentiment
          label == formattedNews[i].sentimentLabel
      IN  /\ label = "positive" <=> doubleLess(Tenth, sentiment)
          /\ label = "negative" <=> doubleLess(sentiment, MinusTenth)
          /\ label = "neutral" <=>
               (doubleLeq(sentiment, Tenth) /\ doubleLeq(MinusTenth, sentiment))

\* C10 happens: a score of exactly 0.1 labelled 'neutral' next to a score
\* above 0.1 labelled 'positive'
C10_Witness ==
  /\ Converted
  /\ \E i \in DOMAIN formattedNews :
       /\ formattedNews[i].sentiment = Tenth
       /\ formattedNews[i].sentimentLabel = "neutral"
  /\ \E i \in DOMAIN formattedNews :
       /\ doubleLess(Tenth, formattedNews[i].sentiment)
       /\ formattedNews[i].sentimentLabel = "positive"

(***************************************************************************)
(* Properties of two calls on the same list.                               *)
(***************************************************************************)
ReturnedAgain == pc = "returnedAgain"

\* the fields of an alert that do not embed the time of its creation
derivedFields(alert) ==
  [impact |-> alert.impact, keywords |-> alert.keywords,
   title |-> alert.title, summary |-> alert.summary,
   category |-> alert.category, source |-> alert.source]

C18_InputListUnchanged == [][newsItems' = newsItems]_vars

\* C18 happens: two calls were made on a list of two items and each
\* returned alerts
C18_Witness ==
  /\ ReturnedAgain
  /\ Len(newsItems) = 2
  /\ firstAlerts # <<>> /\ alerts # <<>>

(***************************************************************************)
(* Properties of the reporting vocabulary.                                 *)
(***************************************************************************)
\* the reporting terms the text of item i contains
namedIn(i) ==
  {term \in ReportingTerms : includes(textToAnalyze(newsItems[i]), term)}

\* C13 as stated: each of announcement, update, report, analysis,
\* commentary, forecast, trend and strategy is a low-impact keyword, and a
\* text with three of them and no keyword of a higher tier yields an alert
\* of impact 'low'.
C13_EightTermsAreLowTier ==
  Returned =>
    \A i \in DOMAIN newsItems :
      /\ namedIn(i) \subseteq Range(LOW_IMPACT_KEYWORDS)
      /\ ( /\ Cardinality(namedIn(i)) >= 3
           /\ present(newsItems[i], HIGH_IMPACT_KEYWORDS) = {}
           /\ present(newsItems[i], MEDIUM_IMPACT_KEYWORDS) = {} )
         => /\ alertsOf(i) # {}
            /\ \A j \in alertsOf(i) : alerts[j].impact = "low"

\* C13 amended: each of announcement, update, report, analysis, commentary,
\* trend and strategy is a low-impact keyword, and a text with three of them
\* and no keyword of a higher tier yields an alert of impact 'low' whose
\* keywords include them; forecast is a medium-impact keyword and not a
\* low-impact one, and a text whose only keywords are forecast and two of
\* the seven yields no alert.
C13_SevenTermsAreLowTier ==
  Returned =>
    \A i \in DOMAIN newsItems :
      LET seven == namedIn(i) \ {"forecast"}
          high == present(newsItems[i], HIGH_IMPACT_KEYWORDS)
          medium == present(newsItems[i], MEDIUM_IMPACT_KEYWORDS)
          low == present(newsItems[i], LOW_IMPACT_KEYWORDS)
      IN  /\ seven \subseteq Range(LOW_IMPACT_KEYWORDS)
          /\ "forecast" \in namedIn(i) =>
               /\ "forecast" \in Range(MEDIUM_IMPACT_KEYWORDS)
               /\ "forecast" \notin Range(LOW_IMPACT_KEYWORDS)
          /\ (Cardinality(seven) >= 3 /\ high = {} /\ medium = {})
             => /\ alertsOf(i) # {}
                /\ \A j \in alertsOf(i) :
                     /\ alerts[j].impact = "low"
                     /\ seven \subseteq Range(alerts[j].keywords)
          /\ (high = {} /\ medium = {"forecast"} /\ Cardinality(low) = 2)
             => alertsOf(i) = {}

\* C13 happens: an item made of three of the seven terms got a 'low' alert
C13_Witness ==
  /\ Returned
  /\ \E i \in DOMAIN newsItems :
       /\ "forecast" \notin namedIn(i)
       /\ Cardinality(namedIn(i)) = 3
       /\ \E j \in alertsOf(i) : alerts[j].impact = "low"

(***************************************************************************)
(* Properties of the alerts' fields.                                       *)
(***************************************************************************)
\* C17: in the list one detectAlerts call returns no two alerts have the
\* same id, whether or not the clock advanced between their creation.
C17_IdsUniqueInOneCall ==
  Returned =>
    \A j, k \in DOMAIN alerts : j # k => alerts[j].id # alerts[k].id

\* C17 happens: a call returned two alerts created at the same clock value
C17_Witness ==
  /\ Returned
  /\ \E j, k \in DOMAIN alerts :
       j # k /\ alerts[j].detectedAt = alerts[k].detectedAt

\* the item has the field and it is not the empty string
given(item, field) == field \in DOMAIN item /\ item[field] # ""

\* C15: every alert copies its descriptive fields from its news item with
\* fixed defaults: title is the item's title, else its headline, else
\* 'Market Alert'; summary is the item's summary, else 'High-impact market
\* news detected'; category is the item's category, else 'general'; source
\* is the item's source, else 'Unknown'.  A field that is missing or empty
\* is the "else" case.
C15_FieldsCopiedWithDefaults ==
  Returned =>
    \A j \in DOMAIN alerts :
      LET item == itemOf(alerts[j])
      IN  /\ alerts[j].title =
               (IF given(item, "title") THEN item.title
                ELSE IF given(item, "headline") THEN item.headline
                ELSE "Market Alert")
          /\ alerts[j].summary =
               (IF given(item, "summary") THEN item.summary
                ELSE "High-impact market news detected")
          /\ alerts[j].category =
               (IF given(item, "category") THEN item.category ELSE "general")
          /\ alerts[j].source =
               (IF given(item, "source") THEN item.source ELSE "Unknown")

\* C15 happens: one alert took its title from the headline, its summary
\* from the default and category and source from the item; another took every
\* default but the summary
C15_Witness ==
  /\ Returned
  /\ \E j \in DOMAIN alerts :
       /\ ~given(itemOf(alerts[j]), "title")
       /\ alerts[j].title = "Federal Reserve meeting"
       /\ alerts[j].summary = "High-impact market news detected"
       /\ alerts[j].category = "forex"
       /\ alerts[j].source = "Reuters"
  /\ \E j \in DOMAIN alerts :
       /\ alerts[j].title = "Market Alert"
       /\ given(itemOf(alerts[j]), "summary")
       /\ alerts[j].summary = itemOf(alerts[j]).summary
       /\ alerts[j].category = "general"
       /\ alerts[j].source = "Unknown"

\* the fields of C14 that the item does not have
absentFields(item) ==
  {"title", "headline", "summary", "category", "source"} \ DOMAIN item

\* what analyzeNewsItem decided: null, or the impact and the keywords
classification(alert) ==
  IF alert = null THEN null
  ELSE [impact |-> alert.impact, keywords |-> alert.keywords]

\* for every item and every field it lacks, the classification of the same
\* item with that field set to ''
PoolWithEmptyField ==
  [item \in NewsItemPool |->
     [field \in absentFields(item) |->
        classification(analyzeNewsItem((field :> "") @@ item, 0, 0))]]

\* C14: detectAlerts returns for a batch whose items lack any of title,
\* headline, summary, category or source, and for every absent field the
\* item's impact and keywords (or its having no alert) are those of the same
\* item with that field set to ''.
C14_AbsentFieldIsEmptyString ==
  Returned =>
    \A i \in DOMAIN newsItems :
      \A field \in absentFields(newsItems[i]) :
        LET expected == PoolWithEmptyField[newsItems[i]][field]
        IN  IF expected = null THEN alertsOf(i) = {}
            ELSE /\ alertsOf(i) # {}
                 /\ \A j \in alertsOf(i) : classification(alerts[j]) = expected

\* C14 happens: an item without title and headline and an item without
\* summary, category and source were both classified and alerted
C14_Witness ==
  /\ Returned
  /\ \E i \in DOMAIN newsItems :
       /\ {"title", "headline"} \subseteq absentFields(newsItems[i])
       /\ alertsOf(i) # {}
  /\ \E i \in DOMAIN newsItems :
       /\ {"summary", "category", "source"} \subseteq absentFields(newsItems[i])
       /\ alertsOf(i) # {}

\* the cue words of a list that the text includes
cuesIn(text, words) == {word \in Range(words) : includes(text, word)}

\* n * 0.1 as one multiplication of doubles, for an integer n of -9..9
timesTenth(n) ==
  LET k == IF n < 0 THEN -n ELSE n
      lo == Tenth.lo * k
  IN  signed(n < 0, roundToDouble([hi |-> Tenth.hi * k + (lo \div Limb),
                                   lo |-> lo % Limb]))

\* C11: the sentiment score equals 0.1 times (the number of distinct
\* positive cue words in the lowercased text minus the number of distinct
\* negative cue words in it).
C11_ScoreIsTenthOfNetCount ==
  Converted =>
    \A i \in DOMAIN formattedNews :
      formattedNews[i].sentiment =
        timesTenth(Cardinality(cuesIn(sentimentText(i), positiveWords))
                     - Cardinality(cuesIn(sentimentText(i), negativeWords)))

\* the record of the headline "Company reports strong growth and profit
\* increase" with an empty summary
growthHeadline(i) ==
  /\ Has(finnhubNews[i], "headline") /\ Has(finnhubNews[i], "summary")
  /\ finnhubNews[i].headline = "Company reports strong growth and profit increase"
  /\ finnhubNews[i].summary = ""

\* C12 as stated: the headline "Company reports strong growth and profit
\* increase" with an empty summary matches exactly the cues "strong" and
\* "increase", scores 0.2 and is labelled 'positive'.
C12_TwoCuesScoreTwoTenths ==
  Converted =>
    \A i \in DOMAIN formattedNews :
      growthHeadline(i) =>
        /\ cuesIn(sentimentText(i), positiveWords) = {"strong", "increase"}
        /\ cuesIn(sentimentText(i), negativeWords) = {}
        /\ formattedNews[i].sentiment = doubleAdd(Tenth, Tenth)
        /\ formattedNews[i].sentimentLabel = "positive"

\* C12 amended: that headline matches exactly the three positive cues
\* "strong", "growth" and "increase" and no negative cue, scores
\* 0.1 + 0.1 + 0.1 (0.30000000000000004) and is labelled 'positive'.
C12_ThreeCuesScoreThreeTenths ==
  Converted =>
    \A i \in DOMAIN formattedNews :
      growthHeadline(i) =>
        /\ cuesIn(sentimentText(i), positiveWords)
             = {"strong", "growth", "increase"}
        /\ cuesIn(sentimentText(i), negativeWords) = {}
        /\ formattedNews[i].sentiment
             = doubleAdd(doubleAdd(Tenth, Tenth), Tenth)
        /\ formattedNews[i].sentimentLabel = "positive"

\* C12 happens: the headline was converted and labelled
C12_Witness ==
  /\ Converted
  /\ \E i \in DOMAIN formattedNews :
       growthHeadline(i) /\ formattedNews[i].sentimentLabel = "positive"

\* C20: for every list of records, whichever of the optional fields
\* headline, summary, source, category, datetime, related, url and image
\* are missing, convertFinnhubNewsToAppFormat returns one formatted item per
\* record and does not throw.
C20_OneItemPerRecordNoThrow ==
  cpc # "ready" =>
    /\ cpc = "returned"
    /\ Len(formattedNews) = Len(finnhubNews)

(***************************************************************************)
(* Properties of the News view.                                            *)
(***************************************************************************)
\* the number of fetchNews calls that have completed
completed == started - Len(fetches)

\* C19: once a fetchNews call has completed, by whichever path (a proxy
\* delivered records, every proxy failed or delivered an empty list, or the
\* conversion threw), the news list is not empty; and the list handed to
\* detectAlerts is never empty.
C19_NewsNonEmptyAfterFetch ==
  /\ completed > 0 => Len(news) > 0
  /\ pc = "returned" => Len(newsItems) > 0

\* C19 happens: two fetchNews calls have completed, the conversion of the
\* later one threw, and detectAlerts was run on the twenty mock items that
\* took the place of its records
C19_Witness ==
  /\ completed >= 2
  /\ fetches = <<>>
  /\ cpc = "threw"
  /\ Len(news) = 20
  /\ pc = "returned"
  /\ newsItems = news

\* a detection pass has run in the step: a fetchNews call completed, and the
\* effect on [news] ran on its list
DetectionPass == completed' = completed + 1

keptBy(alertId) == {i \in DOMAIN viewAlerts : viewAlerts[i].id # alertId}

\* C22: dismissAlert(id) removes exactly the displayed alerts whose id is
\* the given one; every other displayed alert stays, in the same relative
\* order, and the news list and the selected category are unchanged.
\* Dismissing an id that is not displayed changes nothing.
C22_DismissRemovesOnlyThatId ==
  [][\A alertId \in DismissibleIds :
       dismissAlert(alertId) =>
         /\ Len(viewAlerts') = Cardinality(keptBy(alertId))
         /\ \A i \in keptBy(alertId) :
              viewAlerts'[Cardinality({j \in keptBy(alertId) : j <= i})]
                = viewAlerts[i]
         /\ news' = news
         /\ newsCategory' = newsCategory
         /\ (keptBy(alertId) = DOMAIN viewAlerts => viewAlerts' = viewAlerts)
    ]_vars

\* C22 happens: of three displayed alerts the second was dismissed, and the
\* first and the third are displayed
C22_Witness ==
  /\ pc = "returned"
  /\ Len(alerts) >= 3
  /\ viewAlerts = <<alerts[1], alerts[3]>>

\* the alerts of seq are alerts of among, in the order they have there
subsequenceOf(seq, among) ==
  \E at \in [DOMAIN seq -> DOMAIN among] :
    /\ \A i \in DOMAIN seq : seq[i] = among[at[i]]
    /\ \A i, j \in DOMAIN seq : i < j => at[i] < at[j]

\* C23: whatever the interleaving of overlapping fetchNews calls and
\* dismissals, the displayed alerts come from one detection pass, the last
\* one, and never mix alerts of two batches; once a fetchNews call has
\* completed, that pass is detectAlerts applied to the news list held, and
\* the displayed alerts are among its first three.
C23_DisplayedFromOnePass ==
  /\ subsequenceOf(viewAlerts, slice(alerts, 0, 3))
  /\ completed > 0 =>
       /\ newsItems = news
       /\ \E t \in ViewClock : alerts = detectAlertsInView[news][t]

\* C23 happens: two fetchNews calls overlapped and the one started first,
\* for another category, completed last; of the alerts of its pass one was
\* dismissed and another is displayed
C23_Witness ==
  /\ completed = 2
  /\ fetches = <<>>
  /\ fetchedFor # <<newsCategory>>
  /\ viewAlerts # <<>>
  /\ Len(viewAlerts) < Len(alerts)
  /\ Len(alerts) <= 3

\* C25: whenever no fetchNews call is in flight, the news list displayed was
\* produced by a fetch started for the category now selected.
C25_NewsOfSelectedCategory ==
  fetches = <<>> /\ completed > 0 => fetchedFor = <<newsCategory>>

\* C26: whenever at least one fetchNews call is in flight, loading is true.
C26_LoadingWhileInFlight == fetches # <<>> => loading

\* C27: provided every request to a proxy ends, every fetchNews call
\* completes (calls in flight lead to a state with no call in flight), each
\* completion, by whichever path, leaves loading false, and when no call
\* is in flight after one has completed loading is false.
C27_EveryFetchCompletes ==
  /\ (fetches # <<>>) ~> (fetches = <<>>)
  /\ [][completed' > completed => ~loading']_vars
  /\ [](fetches = <<>> /\ completed > 0 => ~loading)

\* C27 happens: two calls have completed, the later one after its three
\* proxies failed, with the fallback list of its category, and loading is
\* false
C27_Witness ==
  /\ completed >= 2
  /\ fetches = <<>>
  /\ ~loading
  /\ cpc = "returned"
  /\ fetchedFor # <<>>
  /\ \E t \in ViewClock : finnhubNews = getFallbackNews(fetchedFor[1], t)

\* the alerts a and b are alerts for the same news item, found at the same
\* position of the list (the last component of an id)
sameItem(a, b) ==
  /\ a.title = b.title /\ a.summary = b.summary /\ a.source = b.source
  /\ a.id[3] = b.id[3]

\* C28: while the news list is not updated no alert joins the displayed
\* list, so a dismissed alert stays absent; every update of the news list
\* (the lists are never empty) replaces the displayed alerts by the first
\* three of a fresh detection pass over the whole list, whatever was
\* dismissed before.
C28_DismissalsForgottenOnUpdate ==
  /\ [][~DetectionPass =>
          \A i \in DOMAIN viewAlerts' :
            \E j \in DOMAIN viewAlerts : viewAlerts'[i] = viewAlerts[j]]_vars
  /\ [][DetectionPass =>
          viewAlerts' = slice(detectAlertsInView[news'][now'], 0, 3)]_vars

\* C28 happens: an alert was dismissed, the news list was updated, and an
\* alert for the same item is displayed again, under another id
C28_Witness ==
  \E a \in dismissed : \E i \in DOMAIN viewAlerts :
    /\ sameItem(a, viewAlerts[i])
    /\ a.id # viewAlerts[i].id
    /\ \A j \in DOMAIN viewAlerts : viewAlerts[j] # a

\* the record an alert of the last pass was made for, when the pass ran on
\* the converted list: the last component of the id is its position
recordOf(alert) == finnhubNews[alert.id[3] + 1]

\* C29: for a record fetched with category c, converted and then
\* classified in the News view, the alert's category is c and its title,
\* summary and source are the record's headline, summary and source.
C29_AlertKeepsCategoryAndTexts ==
  completed > 0 /\ cpc = "returned" /\ newsItems = formattedNews =>
    \A j \in DOMAIN alerts :
      /\ alerts[j].category = fetchedFor[1]
      /\ alerts[j].title = recordOf(alerts[j]).headline
      /\ alerts[j].summary = recordOf(alerts[j]).summary
      /\ alerts[j].source = recordOf(alerts[j]).source

(***************************************************************************)
(* Properties of the sentiment label.                                      *)
(***************************************************************************)
\* the net cue count of the text record i is scored by: distinct positive
\* cues present minus distinct negative cues present
netCueCount(i) ==
  Cardinality(cuesIn(sentimentText(i), positiveWords))
    - Cardinality(cuesIn(sentimentText(i), negativeWords))

\* C30: the sentiment label depends only on the net cue count n: it is
\* 'positive' exactly when n >= 2, 'negative' exactly when n <= -2 and
\* 'neutral' when n is -1, 0 or 1 (three positive and two negative cues give
\* 'neutral').
C30_LabelFromNetCueCount ==
  Converted =>
    \A i \in DOMAIN formattedNews :
      formattedNews[i].sentimentLabel =
        IF netCueCount(i) >= 2 THEN "positive"
        ELSE IF netCueCount(i) <= -2 THEN "negative"
        ELSE "neutral"

(***************************************************************************)
(* Properties of getImpactColor and getImpactIcon.                         *)
(***************************************************************************)
\* the case of the switch an argument takes: its impact, or "default"
switchCase(impact) ==
  IF impact \in {string("high"), string("medium"), string("low")}
    THEN impact.value
  ELSE "default"

\* C24: getImpactColor and getImpactIcon return a defined value for every
\* argument, and the value depends on the argument through its case only:
\* two arguments get the same colour (the same icon) exactly when both are
\* the same one of 'high', 'medium', 'low' or both are anything else.
C24_ImpactValuesFixedPerCase ==
  /\ impactCall # <<>> /\ impactCall.color # <<>> =>
       /\ Len(impactCall.color[1]) > 0
       /\ \A other \in ImpactArguments :
            (getImpactColor(other) = impactCall.color[1])
              <=> (switchCase(other) = switchCase(impactCall.impact))
  /\ impactCall # <<>> /\ impactCall.icon # <<>> =>
       /\ Len(impactCall.icon[1]) > 0
       /\ \A other \in ImpactArguments :
            (getImpactIcon(other) = impactCall.icon[1])
              <=> (switchCase(other) = switchCase(impactCall.impact))

\* C24 happens: both functions have been called on an argument that is no
\* case label, the impact 'high' spelt with a capital
C24_Witness ==
  /\ impactCall # <<>>
  /\ impactCall.impact = string("High")
  /\ impactCall.color = <<"#6b7280">>
  /\ impactCall.icon = <<<<128226>>>>

====
